---------------------------- MODULE Spec2Model ----------------------------
(***************************************************************************)
(* A model of the XR plugins of the bevy fork:                             *)
(*   - the OpenXR runner (crates/bevy_openxr/src/lib.rs, fn runner),       *)
(*   - the audio output queue (crates/bevy_audio/src/audio_output.rs),     *)
(*   - the WebXR context, runner and tracking source (crates/bevy_webxr),  *)
(*   - the OpenXrSession wrapper and its Drop order,                       *)
(*   - OpenXrContext::new, OpenXrPlugin::build and get_system_info,        *)
(*   - the framebuffer key of the WebXR plugin (crates/bevy_webxr),        *)
(*   - XRProjection::get_projection_matrix (bevy_openxr/src/camera),       *)
(*   - MainPassDriverNode::run (crates/bevy_core_pipeline),                *)
(*   - the schedule of the systems XrCameraPlugin adds.                    *)
(* Each subsystem has its own specification over the shared variables; the *)
(* variables of the other subsystems stay at their initial values.         *)
(*                                                                         *)
(* Calls into the OpenXR runtime, Vulkan and the browser are modelled as   *)
(* returning successfully where the code unwraps their results and panics  *)
(* otherwise; what the runtime returns (events, should_render, frames,     *)
(* form factor answers, blend modes) is an input chosen with \E or drawn   *)
(* in the initial state.                                                   *)
(***************************************************************************)
EXTENDS Integers, Sequences, FiniteSets, TLC

(***************************************************************************)
(* Bounds of the model.                                                    *)
(***************************************************************************)
\* frames the runtime hands out through frame_waiter.wait before the model stops
MaxFrames == 3
\* configs in audio.queue when the model starts
MaxQueue == 3
\* distinct audio source handles
NumSources == 2
\* XrFrames the browser creates before the model stops
MaxXrFrames == 3
\* OpenXrSession values that exist over a run (the runner's and its clones)
MaxSessionValues == 3
\* references to the wgpu device held by the context and the render resources
MaxOtherDeviceRefs == 2
\* values Uuid::new_v4() can return
NumUuids == 3
\* XrFrames the WebXR plugin's systems see before the model stops
MaxFbFrames == 4
\* largest near value of an XRProjection, and largest far value
MaxNear == 2
MaxFar == 2
\* largest field-of-view angle (in the model's unit)
MaxAngle == 2
\* app.update() calls of the schedule before the model stops
MaxSchedFrames == 3
\* distinct view poses the runtime can locate
NumPoses == 2

(***************************************************************************)
(* Program constants.                                                      *)
(***************************************************************************)
PIPELINE_DEPTH == 2

(***************************************************************************)
(* State of the OpenXR runner.                                             *)
(***************************************************************************)
VARIABLES
    pc,               \* position of fn runner
    startupAppExit,   \* an AppExit event was sent while the Startup stage ran
    appExitUnread,    \* Events<AppExit> holds an event app_exit_event_reader has not read
    sessionCreated,   \* instance.create_session was called
    actionSetAttached,\* session.attach_action_sets was called
    sessionBegun,     \* session.begin was called and session.end was not since
    exitRequested,    \* session.request_exit was called
    running,          \* let mut running
    event,            \* the last result of instance.poll_event
    visibility,       \* the XrVisibilityState resource
    should_render,    \* frame_state.should_render of the last frame_waiter.wait
    nWait,            \* calls of frame_waiter.wait
    nBegin,           \* calls of frame_stream.begin
    nEnd,             \* calls of frame_stream.end
    lastLayers,       \* number of layers passed to the last frame_stream.end
    swapchain,        \* let mut swapchain: "None" or "Some"
    image,            \* per eye: state of the swapchain image
    eyeLog,           \* per eye: swapchain calls made since the last frame_waiter.wait
    viewInserted,     \* ManualTextureViews holds the right-eye view
    renderedInto,     \* state of the right-eye image when app.update last rendered
    cameras_spawned,  \* let mut cameras_spawned
    frame             \* let mut frame, modulo PIPELINE_DEPTH (it only indexes the fences)

runnerVars == <<pc, startupAppExit, appExitUnread, sessionCreated, actionSetAttached,
                sessionBegun, exitRequested, running, event, visibility, should_render,
                nWait, nBegin, nEnd, lastLayers, swapchain, image, eyeLog, viewInserted,
                renderedInto, cameras_spawned, frame>>

(***************************************************************************)
(* State of the audio output (Audio<Source>, Assets<Source>, the sinks).   *)
(***************************************************************************)
VARIABLES
    stream_handle,    \* AudioOutput::stream_handle: "Some" or "None"
    queue,            \* audio.queue: the configs queued by Audio::play
    loaded,           \* source handles for which audio_sources.get returns Some
    sinks,            \* sink handles set in Assets<AudioSink>
    spatial_sinks,    \* sink handles set in Assets<SpatialAudioSink>
    queueAtEntry,     \* the queue at the entry of the last try_play_queued
    examined,         \* the configs popped by the last try_play_queued, in order
    lastAudioOp       \* the audio operation that ran last

audioVars == <<stream_handle, queue, loaded, sinks, spatial_sinks, queueAtEntry,
               examined, lastAudioOp>>

(***************************************************************************)
(* State of the WebXR backend: WebXrContext::get_context, webxr_runner and *)
(* the TrackingSource.                                                     *)
(***************************************************************************)
VARIABLES
    ctxPc,            \* position of get_context, then of the app
    ctxMode,          \* get_context's argument `mode` (a bevy_xr::XrSessionMode)
    ctxSpaceType,     \* get_context's argument `space_type`
    browserSupports,  \* the web_sys::XrSessionMode values the browser's XR system supports
    supportQuery,     \* how the is_session_supported promise settled
    sessionRequested, \* the mode passed to request_session_with_options, or "none"
    canvasCreated,    \* Canvas::default() was called
    spaceRequested,   \* the type passed to request_reference_space, or "none"
    ctxResult,        \* what get_context returned
    space_info,       \* WebXrContext::space_info.1, or "none"
    rafPending,       \* animation-frame callbacks requested and not yet called
    frameNo,          \* the number of the last XrFrame the browser created
    xrFrame,          \* the XrFrame non-send resource (a frame number, 0: absent)
    tracking,         \* the TrackingSource inside the XrTrackingSource resource
    updateSaw,        \* the XrFrame and the tracking source's frame during the last app.update
    cbLog,            \* what the last animation-frame callback did, in order
    setArg,           \* the argument of the last set_reference_space_type
    setResult         \* the result of the last set_reference_space_type (FALSE before any)

ctxVars == <<ctxPc, ctxMode, ctxSpaceType, browserSupports, supportQuery,
             sessionRequested, canvasCreated, spaceRequested, ctxResult, space_info>>
webRunnerVars == <<rafPending, frameNo, xrFrame, tracking, updateSaw, cbLog>>
trackingCallVars == <<setArg, setResult>>
webVars == <<ctxVars, webRunnerVars, trackingCallVars>>

(***************************************************************************)
(* State of the OpenXrSession values and of the wgpu device they refer to. *)
(***************************************************************************)
VARIABLES
    values,           \* the OpenXrSession values: their life cycle and their two fields
    otherDeviceRefs   \* Arc<wgpu::Device> references held outside OpenXrSession values

sessionVars == <<values, otherDeviceRefs>>

(***************************************************************************)
(* State of OpenXrPlugin::build and of the runner up to the session        *)
(* creation: the context, the interaction mode and the session modes.      *)
(***************************************************************************)
VARIABLES
    ffStatus,         \* runtime: what instance.system answers for each xr::FormFactor
    blendModes,       \* runtime: enumerate_environment_blend_modes per view configuration
    varjo_quad_views, \* instance.exts().varjo_quad_views.is_some()
    buildPc,          \* position of OpenXrPlugin::build, then of the runner
    requested,        \* the xr::FormFactor values passed to instance.system, in order
    createdFor,       \* the OpenXrFormFactor the context was created for, or "none"
    form_factor,      \* ctx.form_factor, or "none"
    interaction_mode, \* the XrInteractionMode resource, or "unset"
    available_session_modes, \* what XrSystem::new was given
    selected_session_mode, \* xr_system.selected_session_mode() after Startup, or "none"
    environment_blend_mode \* the XrEnvironmentBlendMode resource, or "unset"

contextVars == <<ffStatus, blendModes, varjo_quad_views, buildPc, requested, createdFor,
                 form_factor, interaction_mode, available_session_modes,
                 selected_session_mode, environment_blend_mode>>

(***************************************************************************)
(* State of the WebXR plugin's framebuffer bookkeeping                     *)
(* (crates/bevy_webxr/src/lib.rs).                                         *)
(***************************************************************************)
VARIABLES
    fbPc,             \* "build", "raf" (a frame is awaited), "startup", "update"
    framebuffer_uuid, \* the FramebufferUuid resource; 0 before setup
    manual_tex_view,  \* ManualTextureViews: Uuid -> the frame whose framebuffer the view wraps
    cameraTarget,     \* RenderTarget::TextureView id of each eye camera; 0 before the spawn
    fbFrame,          \* the web_sys::XrFrame resource: number of the current frame
    pending,          \* systems of the Update stage that have not run in this app.update()
    head_tf,          \* frame the head transform was last synchronised with
    hands_tf          \* frame the hand transforms were last synchronised with

framebufferVars == <<fbPc, framebuffer_uuid, manual_tex_view, cameraTarget, fbFrame,
                     pending, head_tf, hands_tf>>

(***************************************************************************)
(* State of one XRProjection component and of the calls made on it         *)
(* (crates/bevy_openxr/src/camera/mod.rs).                                 *)
(***************************************************************************)
VARIABLES
    projection,       \* the XRProjection: near, far, fov
    matrixCalled,     \* get_projection_matrix has been called
    matrix,           \* the Mat4 it returned, column-major; <<>> before the call
    branch,           \* the branch it took: "infinite" or "finite"; "none" before the call
    farCalled,        \* far() has been called
    farResult         \* the value far() returned; 0 before the call

projectionVars == <<projection, matrixCalled, matrix, branch, farCalled, farResult>>

(***************************************************************************)
(* State of one MainPassDriverNode::run                                    *)
(* (crates/bevy_core_pipeline/src/main_pass_driver.rs).                    *)
(***************************************************************************)
VARIABLES
    active_camera_3d, \* ActiveCamera<Camera3d>.get(): "Some" or "None"
    active_camera_2d, \* ActiveCamera<Camera2d>.get(): "Some" or "None"
    left_eye,         \* ActiveCamera<CameraLeftEye>: "absent", or what get() returns
    right_eye,        \* ActiveCamera<CameraRightEye>: "absent", or what get() returns
    failing,          \* the cameras whose sub-graph run returns an error
    driverPc,         \* position inside run
    vr_eyes,          \* the local vector of the eye cameras still to visit
    subGraphLog,      \* the cameras run_sub_graph was called with, in order
    runResult         \* "pending", "Ok" or "Err"

driverVars == <<active_camera_3d, active_camera_2d, left_eye, right_eye, failing,
                driverPc, vr_eyes, subGraphLog, runResult>>

(***************************************************************************)
(* State of the schedule of one App with XrCameraPlugin                    *)
(* (crates/bevy_openxr/src/camera/xrcameraplugin.rs, camera/mod.rs).       *)
(***************************************************************************)
VARIABLES
    schedFrame,       \* number of the app.update() in progress, or of the last one
    stage,            \* the CoreStage in progress, or "idle" between two updates
    ran,              \* the systems that have run in this app.update()
    xr_views,         \* the XrViews resource: the views located for a frame
    eye_transform,    \* Transform of the eye cameras: the views it was written from
    eye_fov,          \* XRProjection::fov of the eye cameras: the views it was written from
    global_transform, \* GlobalTransform of the eye cameras: the views its Transform came from
    frustum,          \* Frustum of the eye cameras: the views its pose and its fov came from
    perspective_frusta \* the frame the perspective cameras' frusta were last updated in

scheduleVars == <<schedFrame, stage, ran, xr_views, eye_transform, eye_fov,
                  global_transform, frustum, perspective_frusta>>

nonRunnerVars ==
    <<audioVars, webVars, sessionVars, contextVars, framebufferVars,
      projectionVars, driverVars, scheduleVars>>
nonAudioVars ==
    <<runnerVars, webVars, sessionVars, contextVars, framebufferVars,
      projectionVars, driverVars, scheduleVars>>
nonWebVars ==
    <<runnerVars, audioVars, sessionVars, contextVars, framebufferVars,
      projectionVars, driverVars, scheduleVars>>
nonSessionVars ==
    <<runnerVars, audioVars, webVars, contextVars, framebufferVars,
      projectionVars, driverVars, scheduleVars>>
nonContextVars ==
    <<runnerVars, audioVars, webVars, sessionVars, framebufferVars,
      projectionVars, driverVars, scheduleVars>>
nonFramebufferVars ==
    <<runnerVars, audioVars, webVars, sessionVars, contextVars,
      projectionVars, driverVars, scheduleVars>>
nonProjectionVars ==
    <<runnerVars, audioVars, webVars, sessionVars, contextVars,
      framebufferVars, driverVars, scheduleVars>>
nonDriverVars ==
    <<runnerVars, audioVars, webVars, sessionVars, contextVars,
      framebufferVars, projectionVars, scheduleVars>>
nonScheduleVars ==
    <<runnerVars, audioVars, webVars, sessionVars, contextVars,
      framebufferVars, projectionVars, driverVars>>

vars ==
    <<runnerVars, audioVars, webVars, sessionVars, contextVars,
      framebufferVars, projectionVars, driverVars, scheduleVars>>

Eyes == {"left", "right"}

\* xr::Event variants the runner only logs or uses for resources outside the model
OtherEvents == {"ReferenceSpaceChangePending", "PerfSettingsEXT",
                "VisibilityMaskChangedKHR", "InteractionProfileChanged",
                "MainSessionVisibilityChangedEXTX", "DisplayRefreshRateChangedFB"}

\* positions of the runner inside 'session_loop
LoopPcs == {"poll", "wait", "begin", "check_render", "acquire_left", "insert_view",
            "update", "wait_right", "wait_left", "release_left", "release_right",
            "end", "post"}

InitRunner ==
    /\ pc = "startup"
    /\ startupAppExit = FALSE
    /\ appExitUnread = FALSE
    /\ sessionCreated = FALSE
    /\ actionSetAttached = FALSE
    /\ sessionBegun = FALSE
    /\ exitRequested = FALSE
    /\ running = FALSE
    /\ event = "none_yet"
    /\ visibility = "unset"
    /\ should_render = FALSE
    /\ nWait = 0
    /\ nBegin = 0
    /\ nEnd = 0
    /\ lastLayers = 0
    /\ swapchain = "None"
    /\ image = [e \in Eyes |-> "released"]
    /\ eyeLog = [e \in Eyes |-> <<>>]
    /\ viewInserted = FALSE
    /\ renderedInto = "nothing"
    /\ cameras_spawned = FALSE
    /\ frame = 0

frameVars == <<should_render, nWait, nBegin, nEnd, lastLayers>>
swapVars == <<swapchain, image, eyeLog, viewInserted, renderedInto, cameras_spawned, frame>>
setupVars == <<startupAppExit, sessionCreated, actionSetAttached>>

(***************************************************************************)
(* Before the session loop.                                                *)
(***************************************************************************)
\* The Startup stage is run once; a startup system may send AppExit.
RunStartupStage ==
    /\ pc = "startup"
    /\ UNCHANGED nonRunnerVars
    /\ \E sent \in BOOLEAN :
          /\ startupAppExit' = sent
          /\ appExitUnread' = sent
    /\ pc' = "check_exit"
    /\ UNCHANGED <<sessionCreated, actionSetAttached, sessionBegun, exitRequested,
                   running, event, visibility, frameVars, swapVars>>

\* Variant of CheckAppExit: the AppExit event is read but the runner goes on.
CheckAppExit_NoReturn ==
    /\ pc = "check_exit"
    /\ UNCHANGED nonRunnerVars
    /\ pc' = "create_session"
    /\ appExitUnread' = FALSE
    /\ UNCHANGED <<setupVars, sessionBegun, exitRequested, running, event, visibility,
                   frameVars, swapVars>>

\* if app_exit_event_reader.iter(..).next_back().is_some() { return; }
CheckAppExit ==
    /\ pc = "check_exit"
    /\ UNCHANGED nonRunnerVars
    /\ pc' = IF appExitUnread THEN "returned" ELSE "create_session"
    /\ appExitUnread' = FALSE
    /\ UNCHANGED <<setupVars, sessionBegun, exitRequested, running, event, visibility,
                   frameVars, swapVars>>

\* ctx.instance.create_session(..); the OpenXrSession resource is inserted
CreateSession ==
    /\ pc = "create_session"
    /\ UNCHANGED nonRunnerVars
    /\ sessionCreated' = TRUE
    /\ pc' = "attach"
    /\ UNCHANGED <<startupAppExit, appExitUnread, actionSetAttached, sessionBegun,
                   exitRequested, running, event, visibility, frameVars, swapVars>>

\* session.attach_action_sets(..), then the rest of the set-up up to 'session_loop
AttachActionSets ==
    /\ pc = "attach"
    /\ UNCHANGED nonRunnerVars
    /\ actionSetAttached' = TRUE
    /\ pc' = "poll"
    /\ UNCHANGED <<startupAppExit, appExitUnread, sessionCreated, sessionBegun,
                   exitRequested, running, event, visibility, frameVars, swapVars>>

(***************************************************************************)
(* The event loop: while let Some(event) = ctx.instance.poll_event(..)     *)
(***************************************************************************)
PollEventsLost ==
    /\ pc = "poll"
    /\ UNCHANGED nonRunnerVars
    /\ event' = "EventsLost"
    /\ UNCHANGED <<pc, setupVars, appExitUnread, sessionBegun, exitRequested, running,
                   visibility, frameVars, swapVars>>

PollInstanceLossPending ==
    /\ pc = "poll"
    /\ UNCHANGED nonRunnerVars
    /\ event' = "InstanceLossPending"
    /\ pc' = "returned"
    /\ UNCHANGED <<setupVars, appExitUnread, sessionBegun, exitRequested, running,
                   visibility, frameVars, swapVars>>

\* UNKNOWN | IDLE => ()
PollIdle ==
    /\ pc = "poll"
    /\ UNCHANGED nonRunnerVars
    /\ \E s \in {"UNKNOWN", "IDLE"} : event' = s
    /\ UNCHANGED <<pc, setupVars, appExitUnread, sessionBegun, exitRequested, running,
                   visibility, frameVars, swapVars>>

\* READY => { session.begin(view_type).unwrap(); running = true; }
PollReady ==
    /\ pc = "poll"
    /\ UNCHANGED nonRunnerVars
    /\ event' = "READY"
    /\ sessionBegun' = TRUE
    /\ running' = TRUE
    /\ UNCHANGED <<pc, setupVars, appExitUnread, exitRequested, visibility, frameVars,
                   swapVars>>

\* SYNCHRONIZED | VISIBLE | FOCUSED => insert_resource(XrVisibilityState::..)
VisibilityOf(s) ==
    CASE s = "SYNCHRONIZED" -> "Hidden"
      [] s = "VISIBLE"      -> "VisibleUnfocused"
      [] s = "FOCUSED"      -> "VisibleFocused"

PollVisibility ==
    /\ pc = "poll"
    /\ UNCHANGED nonRunnerVars
    /\ \E s \in {"SYNCHRONIZED", "VISIBLE", "FOCUSED"} :
          /\ event' = s
          /\ visibility' = VisibilityOf(s)
    /\ UNCHANGED <<pc, setupVars, appExitUnread, sessionBegun, exitRequested, running,
                   frameVars, swapVars>>

\* STOPPING => { session.end().unwrap(); running = false; }
PollStopping ==
    /\ pc = "poll"
    /\ UNCHANGED nonRunnerVars
    /\ event' = "STOPPING"
    /\ sessionBegun' = FALSE
    /\ running' = FALSE
    /\ UNCHANGED <<pc, setupVars, appExitUnread, exitRequested, visibility, frameVars,
                   swapVars>>

\* Variant of PollExiting: the two states are ignored like UNKNOWN | IDLE.
PollExiting_NoBreak ==
    /\ pc = "poll"
    /\ UNCHANGED nonRunnerVars
    /\ \E s \in {"EXITING", "LOSS_PENDING"} : event' = s
    /\ UNCHANGED <<pc, setupVars, appExitUnread, sessionBegun, exitRequested, running,
                   visibility, frameVars, swapVars>>

\* EXITING | LOSS_PENDING => break 'session_loop
PollExiting ==
    /\ pc = "poll"
    /\ UNCHANGED nonRunnerVars
    /\ \E s \in {"EXITING", "LOSS_PENDING"} : event' = s
    /\ pc' = "returned"
    /\ UNCHANGED <<setupVars, appExitUnread, sessionBegun, exitRequested, running,
                   visibility, frameVars, swapVars>>

PollOther ==
    /\ pc = "poll"
    /\ UNCHANGED nonRunnerVars
    /\ \E e \in OtherEvents : event' = e
    /\ UNCHANGED <<pc, setupVars, appExitUnread, sessionBegun, exitRequested, running,
                   visibility, frameVars, swapVars>>

\* Variant of PollNone: the `if !running` check is missing.
PollNone_NoRunningCheck ==
    /\ pc = "poll"
    /\ UNCHANGED nonRunnerVars
    /\ event' = "None"
    /\ pc' = "wait"
    /\ UNCHANGED <<setupVars, appExitUnread, sessionBegun, exitRequested, running,
                   visibility, frameVars, swapVars>>

\* poll_event returned None: if !running { sleep; continue; }
PollNone ==
    /\ pc = "poll"
    /\ UNCHANGED nonRunnerVars
    /\ event' = "None"
    /\ pc' = IF ~running THEN "poll" ELSE "wait"
    /\ UNCHANGED <<setupVars, appExitUnread, sessionBegun, exitRequested, running,
                   visibility, frameVars, swapVars>>

(***************************************************************************)
(* One frame.                                                              *)
(***************************************************************************)
\* let frame_state = frame_waiter.wait().unwrap();
FrameWait ==
    /\ pc = "wait"
    /\ UNCHANGED nonRunnerVars
    /\ nWait < MaxFrames
    /\ nWait' = nWait + 1
    /\ \E r \in BOOLEAN : should_render' = r
    /\ eyeLog' = [e \in Eyes |-> <<>>]
    /\ pc' = "begin"
    /\ UNCHANGED <<setupVars, appExitUnread, sessionBegun, exitRequested, running, event,
                   visibility, nBegin, nEnd, lastLayers, swapchain, image, viewInserted,
                   renderedInto, cameras_spawned, frame>>

\* frame_stream.begin().unwrap()
FrameBegin ==
    /\ pc = "begin"
    /\ UNCHANGED nonRunnerVars
    /\ nBegin' = nBegin + 1
    /\ pc' = "check_render"
    /\ UNCHANGED <<setupVars, appExitUnread, sessionBegun, exitRequested, running, event,
                   visibility, should_render, nWait, nEnd, lastLayers, swapVars>>

\* Variant of FrameEndEmpty: `continue` without ending the frame.
FrameEndEmpty_NoEnd ==
    /\ pc = "check_render"
    /\ UNCHANGED nonRunnerVars
    /\ ~should_render
    /\ pc' = "poll"
    /\ UNCHANGED <<setupVars, appExitUnread, sessionBegun, exitRequested, running, event,
                   visibility, frameVars, swapVars>>

\* if !frame_state.should_render { frame_stream.end(.., &[]); continue; }
FrameEndEmpty ==
    /\ pc = "check_render"
    /\ UNCHANGED nonRunnerVars
    /\ ~should_render
    /\ nEnd' = nEnd + 1
    /\ lastLayers' = 0
    /\ pc' = "poll"
    /\ UNCHANGED <<setupVars, appExitUnread, sessionBegun, exitRequested, running, event,
                   visibility, should_render, nWait, nBegin, swapVars>>

Acquire(e) ==
    /\ image' = [image EXCEPT ![e] = "acquired"]
    /\ eyeLog' = [eyeLog EXCEPT ![e] = Append(@, "acquire")]

\* swapchain.get_or_insert_with(..); swapchains.right.handle.acquire_image()
AcquireRight ==
    /\ pc = "check_render"
    /\ UNCHANGED nonRunnerVars
    /\ should_render
    /\ swapchain' = "Some"
    /\ Acquire("right")
    /\ pc' = "acquire_left"
    /\ UNCHANGED <<setupVars, appExitUnread, sessionBegun, exitRequested, running, event,
                   visibility, frameVars, viewInserted, renderedInto, cameras_spawned,
                   frame>>

\* swapchains.left.handle.acquire_image()
AcquireLeft ==
    /\ pc = "acquire_left"
    /\ UNCHANGED nonRunnerVars
    /\ Acquire("left")
    /\ pc' = "insert_view"
    /\ UNCHANGED <<setupVars, appExitUnread, sessionBegun, exitRequested, running, event,
                   visibility, frameVars, swapchain, viewInserted, renderedInto,
                   cameras_spawned, frame>>

\* manual_texture_views.insert(right_id, ..); the camera is spawned once
InsertTextureView ==
    /\ pc = "insert_view"
    /\ UNCHANGED nonRunnerVars
    /\ viewInserted' = TRUE
    /\ cameras_spawned' = TRUE
    /\ pc' = "update"
    /\ UNCHANGED <<setupVars, appExitUnread, sessionBegun, exitRequested, running, event,
                   visibility, frameVars, swapchain, image, eyeLog, renderedInto, frame>>

\* app.update(): the camera renders into the right-eye view; a system may send AppExit
AppUpdate ==
    /\ pc = "update"
    /\ UNCHANGED nonRunnerVars
    /\ renderedInto' = image["right"]
    /\ \E sent \in BOOLEAN : appExitUnread' = (appExitUnread \/ sent)
    /\ pc' = "wait_right"
    /\ UNCHANGED <<setupVars, sessionBegun, exitRequested, running, event, visibility,
                   frameVars, swapchain, image, eyeLog, viewInserted, cameras_spawned,
                   frame>>

WaitImage(e) ==
    /\ image' = [image EXCEPT ![e] = "waited"]
    /\ eyeLog' = [eyeLog EXCEPT ![e] = Append(@, "wait")]

\* swapchains.right.handle.wait_image(xr::Duration::INFINITE)
WaitRight ==
    /\ pc = "wait_right"
    /\ UNCHANGED nonRunnerVars
    /\ WaitImage("right")
    /\ pc' = "wait_left"
    /\ UNCHANGED <<setupVars, appExitUnread, sessionBegun, exitRequested, running, event,
                   visibility, frameVars, swapchain, viewInserted, renderedInto,
                   cameras_spawned, frame>>

\* swapchains.left.handle.wait_image(xr::Duration::INFINITE)
WaitLeft ==
    /\ pc = "wait_left"
    /\ UNCHANGED nonRunnerVars
    /\ WaitImage("left")
    /\ pc' = "release_left"
    /\ UNCHANGED <<setupVars, appExitUnread, sessionBegun, exitRequested, running, event,
                   visibility, frameVars, swapchain, viewInserted, renderedInto,
                   cameras_spawned, frame>>

ReleaseImage(e) ==
    /\ image' = [image EXCEPT ![e] = "released"]
    /\ eyeLog' = [eyeLog EXCEPT ![e] = Append(@, "release")]

\* (fences waited and reset) swapchains.left.handle.release_image()
ReleaseLeft ==
    /\ pc = "release_left"
    /\ UNCHANGED nonRunnerVars
    /\ ReleaseImage("left")
    /\ pc' = "release_right"
    /\ UNCHANGED <<setupVars, appExitUnread, sessionBegun, exitRequested, running, event,
                   visibility, frameVars, swapchain, viewInserted, renderedInto,
                   cameras_spawned, frame>>

\* Variant of ReleaseRight: the left swapchain is released a second time.
ReleaseRight_ReleasesLeft ==
    /\ pc = "release_right"
    /\ UNCHANGED nonRunnerVars
    /\ ReleaseImage("left")
    /\ pc' = "end"
    /\ UNCHANGED <<setupVars, appExitUnread, sessionBegun, exitRequested, running, event,
                   visibility, frameVars, swapchain, viewInserted, renderedInto,
                   cameras_spawned, frame>>

\* swapchains.right.handle.release_image()
ReleaseRight ==
    /\ pc = "release_right"
    /\ UNCHANGED nonRunnerVars
    /\ ReleaseImage("right")
    /\ pc' = "end"
    /\ UNCHANGED <<setupVars, appExitUnread, sessionBegun, exitRequested, running, event,
                   visibility, frameVars, swapchain, viewInserted, renderedInto,
                   cameras_spawned, frame>>

\* frame_stream.end(.., &[&CompositionLayerProjection ..])
FrameEnd ==
    /\ pc = "end"
    /\ UNCHANGED nonRunnerVars
    /\ nEnd' = nEnd + 1
    /\ lastLayers' = 1
    /\ pc' = "post"
    /\ UNCHANGED <<setupVars, appExitUnread, sessionBegun, exitRequested, running, event,
                   visibility, should_render, nWait, nBegin, swapVars>>

\* handle_output(..); if an AppExit was sent { session.request_exit() }; frame += 1
PostFrame ==
    /\ pc = "post"
    /\ UNCHANGED nonRunnerVars
    /\ exitRequested' = (exitRequested \/ appExitUnread)
    /\ appExitUnread' = FALSE
    /\ frame' = (frame + 1) % PIPELINE_DEPTH
    /\ pc' = "poll"
    /\ UNCHANGED <<setupVars, sessionBegun, running, event, visibility, frameVars,
                   swapchain, image, eyeLog, viewInserted, renderedInto, cameras_spawned>>

(***************************************************************************)
(* The audio output: AudioOutput::try_play_queued.                         *)
(***************************************************************************)
Sources == 1..NumSources

\* An AudioToPlay config; sink_handle is the fresh handle Audio::play returned.
Configs == [source_handle : Sources, sink_handle : 1..MaxQueue, spatial : BOOLEAN]

\* The queues Audio::play can have built: every config has its own sink handle.
Queues ==
    UNION {{q \in [1..n -> Configs] : \A k \in 1..n : q[k].sink_handle = k} :
           n \in 0..MaxQueue}

\* No audio activity: the state of the audio resources under the other specifications.
AudioIdle ==
    /\ stream_handle = "Some"
    /\ queue = <<>>
    /\ loaded = {}
    /\ sinks = {}
    /\ spatial_sinks = {}
    /\ queueAtEntry = <<>>
    /\ examined = <<>>
    /\ lastAudioOp = "none"

\* AudioOutput::default() found an output device or not; some configs are queued
\* and some sources are loaded.
InitAudio ==
    /\ stream_handle \in {"Some", "None"}
    /\ queue \in Queues
    /\ loaded \in SUBSET Sources
    /\ sinks = {}
    /\ spatial_sinks = {}
    /\ queueAtEntry = <<>>
    /\ examined = <<>>
    /\ lastAudioOp = "none"

\* play_source / play_spatial_source: Some(sink) exactly if there is a stream handle
play_source == stream_handle = "Some"

\* The body of the while loop for one config that was popped from the front.
PlayOrRequeue(st, config) ==
    IF config.source_handle \in loaded
    THEN IF config.spatial
         THEN IF play_source
              THEN [st EXCEPT !.spatial_sinks = @ \cup {config.sink_handle}]
              ELSE st
         ELSE IF play_source
              THEN [st EXCEPT !.sinks = @ \cup {config.sink_handle}]
              ELSE st
    ELSE [st EXCEPT !.queue = Append(@, config)]

RECURSIVE TryPlayLoop_PushFront(_, _, _)
\* Variant of TryPlayLoop: a config whose source is not loaded is put back at the front.
TryPlayLoop_PushFront(st, i, len) ==
    IF ~(i < len)
    THEN st
    ELSE LET config == Head(st.queue)
             popped == [st EXCEPT !.queue = Tail(@), !.examined = Append(@, config)]
             next   == IF config.source_handle \in loaded
                       THEN PlayOrRequeue(popped, config)
                       ELSE [popped EXCEPT !.queue = <<config>> \o @]
         IN  TryPlayLoop_PushFront(next, i + 1, len)

RECURSIVE TryPlayLoop(_, _, _)
\* while i < len { let config = queue.pop_front().unwrap(); ..; i += 1; }
TryPlayLoop(st, i, len) ==
    IF ~(i < len)
    THEN st
    ELSE LET config == Head(st.queue)
             popped == [st EXCEPT !.queue = Tail(@), !.examined = Append(@, config)]
         IN  TryPlayLoop(PlayOrRequeue(popped, config), i + 1, len)

\* fn try_play_queued: let len = queue.len(); let mut i = 0; the loop
try_play_queued(q, s, ss) ==
    TryPlayLoop([queue |-> q, sinks |-> s, spatial_sinks |-> ss, examined |-> <<>>],
                0, Len(q))

\* play_queued_audio_system runs try_play_queued once
TryPlayQueued ==
    /\ LET r == try_play_queued(queue, sinks, spatial_sinks)
       IN  /\ queue' = r.queue
           /\ sinks' = r.sinks
           /\ spatial_sinks' = r.spatial_sinks
           /\ examined' = r.examined
    /\ queueAtEntry' = queue
    /\ lastAudioOp' = "try_play_queued"
    /\ UNCHANGED <<stream_handle, loaded>>
    /\ UNCHANGED nonAudioVars

\* Between two runs of the system the asset server finishes loading a source.
AssetLoaded ==
    /\ \E h \in Sources \ loaded : loaded' = loaded \cup {h}
    /\ lastAudioOp' = "asset_loaded"
    /\ UNCHANGED <<stream_handle, queue, sinks, spatial_sinks, queueAtEntry, examined>>
    /\ UNCHANGED nonAudioVars

NextAudio ==
    \/ TryPlayQueued
    \/ AssetLoaded

(***************************************************************************)
(* WebXR <-> bevy_xr conversions (crates/bevy_webxr/src/conversion.rs).    *)
(***************************************************************************)
BevyModes == {"ImmersiveVR", "ImmersiveAR", "InlineVR", "InlineAR"}
WebModes == {"Inline", "ImmersiveVr", "ImmersiveAr"}
BevySpaceTypes == {"Viewer", "Local", "Stage"}
WebSpaceTypes == {"Viewer", "Local", "LocalFloor", "BoundedFloor", "Unbounded"}

\* impl XrFrom<bevy_xr::XrSessionMode> for web_sys::XrSessionMode
XrIntoWebMode(mode) ==
    CASE mode = "ImmersiveVR" -> "ImmersiveVr"
      [] mode = "ImmersiveAR" -> "ImmersiveAr"
      [] mode = "InlineVR"    -> "Inline"
      [] mode = "InlineAR"    -> "Inline"

\* impl XrFrom<bevy_xr::XrReferenceSpaceType> for web_sys::XrReferenceSpaceType
XrIntoWebSpace(t) ==
    CASE t = "Viewer" -> "Viewer"
      [] t = "Local"  -> "Local"
      [] t = "Stage"  -> "LocalFloor"

\* impl XrFrom<web_sys::XrReferenceSpaceType> for bevy_xr::XrReferenceSpaceType
XrFromWebSpace(t) ==
    CASE t = "Viewer"     -> "Viewer"
      [] t = "Local"      -> "Local"
      [] t = "LocalFloor" -> "Stage"
      [] OTHER            -> "panic"

(***************************************************************************)
(* WebXrContext::get_context                                               *)
(***************************************************************************)
WebIdle ==
    /\ ctxPc = "start"
    /\ ctxMode = "ImmersiveVR"
    /\ ctxSpaceType = "Local"
    /\ browserSupports = {}
    /\ supportQuery = "pending"
    /\ sessionRequested = "none"
    /\ canvasCreated = FALSE
    /\ spaceRequested = "none"
    /\ ctxResult = "pending"
    /\ space_info = "none"
    /\ rafPending = 0
    /\ frameNo = 0
    /\ xrFrame = 0
    /\ tracking = [frame |-> 0, space_type |-> "none"]
    /\ updateSaw = [xrFrame |-> 0, trackingFrame |-> 0]
    /\ cbLog = <<>>
    /\ setArg = "none"
    /\ setResult = FALSE

\* get_context is called with some mode and space type, in some browser
InitWeb ==
    /\ ctxPc = "start"
    /\ ctxMode \in BevyModes
    /\ ctxSpaceType \in BevySpaceTypes
    /\ browserSupports \in SUBSET WebModes
    /\ supportQuery = "pending"
    /\ sessionRequested = "none"
    /\ canvasCreated = FALSE
    /\ spaceRequested = "none"
    /\ ctxResult = "pending"
    /\ space_info = "none"
    /\ rafPending = 0
    /\ frameNo = 0
    /\ xrFrame = 0
    /\ tracking = [frame |-> 0, space_type |-> "none"]
    /\ updateSaw = [xrFrame |-> 0, trackingFrame |-> 0]
    /\ cbLog = <<>>
    /\ setArg = "none"
    /\ setResult = FALSE

\* The mode whose support get_context asks the browser about.
QueriedMode(mode) == "ImmersiveVr"

\* is_session_supported(..).await? ..; if !session_supported { return Err(..) }
CheckSessionSupported ==
    /\ ctxPc = "start"
    /\ \E settled \in {"resolved", "rejected"} :
          IF settled = "rejected"
          THEN /\ supportQuery' = "rejected"
               /\ ctxResult' = "Err_js"
               /\ ctxPc' = "returned"
          ELSE IF QueriedMode(XrIntoWebMode(ctxMode)) \in browserSupports
               THEN /\ supportQuery' = "true"
                    /\ ctxResult' = ctxResult
                    /\ ctxPc' = "request_session"
               ELSE /\ supportQuery' = "false"
                    /\ ctxResult' = "Err_not_supported"
                    /\ ctxPc' = "returned"
    /\ UNCHANGED <<ctxMode, ctxSpaceType, browserSupports, sessionRequested,
                   canvasCreated, spaceRequested, space_info>>
    /\ UNCHANGED <<webRunnerVars, trackingCallVars, nonWebVars>>

\* xr_system.request_session_with_options(mode, ..).await?: the browser rejects
\* the promise for a mode it does not support, and may reject it otherwise
RequestSession ==
    /\ ctxPc = "request_session"
    /\ sessionRequested' = XrIntoWebMode(ctxMode)
    /\ \E settled \in {"resolved", "rejected"} :
          IF settled = "rejected" \/ XrIntoWebMode(ctxMode) \notin browserSupports
          THEN /\ ctxResult' = "Err_js"
               /\ ctxPc' = "returned"
          ELSE /\ ctxResult' = ctxResult
               /\ ctxPc' = "request_space"
    /\ UNCHANGED <<ctxMode, ctxSpaceType, browserSupports, supportQuery, canvasCreated,
                   spaceRequested, space_info>>
    /\ UNCHANGED <<webRunnerVars, trackingCallVars, nonWebVars>>

\* Canvas::default(); session.request_reference_space(space_type).await?; Ok(..)
RequestReferenceSpace ==
    /\ ctxPc = "request_space"
    /\ canvasCreated' = TRUE
    /\ spaceRequested' = XrIntoWebSpace(ctxSpaceType)
    /\ \E settled \in {"resolved", "rejected"} :
          IF settled = "rejected"
          THEN /\ ctxResult' = "Err_js"
               /\ space_info' = space_info
          ELSE /\ ctxResult' = "Ok"
               /\ space_info' = XrIntoWebSpace(ctxSpaceType)
    /\ ctxPc' = "returned"
    /\ UNCHANGED <<ctxMode, ctxSpaceType, browserSupports, supportQuery, sessionRequested>>
    /\ UNCHANGED <<webRunnerVars, trackingCallVars, nonWebVars>>

(***************************************************************************)
(* webxr_runner and its animation-frame callback                           *)
(***************************************************************************)
\* TrackingSource::new(space, space_type, frame)
TrackingSourceNew(space_type, f) == [frame |-> f, space_type |-> space_type]

\* app.world.insert_non_send_resource(frame.clone())
InsertFrame(w, f) ==
    [w EXCEPT !.xrFrame = f, !.log = Append(@, "insert_frame")]

\* app.world.insert_resource(XrTrackingSource::new(Box::new(tracking_source)))
InsertTrackingSource(w, f) ==
    [w EXCEPT !.tracking = TrackingSourceNew(space_info, f),
              !.log = Append(@, "insert_tracking_source")]

\* app.update(): the systems read the XrFrame and the XrTrackingSource resources
WebAppUpdate(w) ==
    [w EXCEPT !.updateSaw = [xrFrame |-> w.xrFrame, trackingFrame |-> w.tracking.frame],
              !.log = Append(@, "update")]

\* session.request_animation_frame(..)
RequestAnimationFrame(w) ==
    [w EXCEPT !.raf = @ + 1, !.log = Append(@, "request_animation_frame")]

\* Variant of FrameCallback: app.update() runs before the resources are replaced.
FrameCallback_UpdateFirst(w, f) ==
    RequestAnimationFrame(InsertTrackingSource(InsertFrame(WebAppUpdate(w), f), f))

\* The closure webxr_runner passes to request_animation_frame, called with `frame`.
FrameCallback(w, f) ==
    RequestAnimationFrame(WebAppUpdate(InsertTrackingSource(InsertFrame(w, f), f)))

\* fn webxr_runner: the first session.request_animation_frame
WebxrRunner ==
    /\ ctxPc = "returned"
    /\ ctxResult = "Ok"
    /\ ctxPc' = "app_running"
    /\ rafPending' = rafPending + 1
    /\ UNCHANGED <<ctxMode, ctxSpaceType, browserSupports, supportQuery, sessionRequested,
                   canvasCreated, spaceRequested, ctxResult, space_info>>
    /\ UNCHANGED <<frameNo, xrFrame, tracking, updateSaw, cbLog>>
    /\ UNCHANGED <<trackingCallVars, nonWebVars>>

\* The browser calls one pending animation-frame callback with a new XrFrame.
AnimationFrameCallback ==
    /\ ctxPc = "app_running"
    /\ rafPending > 0
    /\ frameNo < MaxXrFrames
    /\ frameNo' = frameNo + 1
    /\ LET w == FrameCallback([xrFrame |-> xrFrame, tracking |-> tracking,
                               updateSaw |-> updateSaw, raf |-> rafPending - 1,
                               log |-> <<>>], frameNo + 1)
       IN  /\ xrFrame' = w.xrFrame
           /\ tracking' = w.tracking
           /\ updateSaw' = w.updateSaw
           /\ rafPending' = w.raf
           /\ cbLog' = w.log
    /\ UNCHANGED <<ctxVars, trackingCallVars, nonWebVars>>

(***************************************************************************)
(* TrackingSource (crates/bevy_webxr/src/interaction/tracking.rs)          *)
(***************************************************************************)
\* fn reference_space_type(&self): self.space_type.xr_into()
reference_space_type(self) == XrFromWebSpace(self.space_type)

\* Variant of set_reference_space_type: the type is stored and true is returned.
set_reference_space_type_Stores(self, t) ==
    [self |-> [self EXCEPT !.space_type = XrIntoWebSpace(t)], result |-> TRUE]

\* fn set_reference_space_type(&self, _reference_space_type) -> bool { false }
set_reference_space_type(self, t) ==
    [self |-> self, result |-> FALSE]

\* A system calls tracking_source.set_reference_space_type(t) during app.update().
SetReferenceSpaceType ==
    /\ ctxPc = "app_running"
    /\ tracking.frame > 0
    /\ \E t \in BevySpaceTypes :
          LET r == set_reference_space_type(tracking, t)
          IN  /\ tracking' = r.self
              /\ setResult' = r.result
              /\ setArg' = t
    /\ UNCHANGED <<ctxVars, rafPending, frameNo, xrFrame, updateSaw, cbLog, nonWebVars>>

NextWeb ==
    \/ CheckSessionSupported
    \/ RequestSession
    \/ RequestReferenceSpace
    \/ WebxrRunner
    \/ AnimationFrameCallback
    \/ SetReferenceSpaceType

(***************************************************************************)
(* OpenXrSession: #[derive(Clone)], impl Drop (crates/bevy_openxr/src/lib.rs) *)
(***************************************************************************)
ValueIds == 1..MaxSessionValues

Unused == [st |-> "unused", inner |-> FALSE, device |-> FALSE, step |-> 0]

\* let session = OpenXrSession { inner: Some(session), _wgpu_device: ctx.wgpu_device.clone() }
NewOpenXrSession == [st |-> "live", inner |-> TRUE, device |-> TRUE, step |-> 0]

\* No OpenXrSession exists yet: the state under the other specifications.
SessionIdle ==
    /\ values = [v \in ValueIds |-> Unused]
    /\ otherDeviceRefs = MaxOtherDeviceRefs

\* The runner has made its OpenXrSession; the context and the renderer hold the device.
InitSession ==
    /\ values = [v \in ValueIds |-> IF v = 1 THEN NewOpenXrSession ELSE Unused]
    /\ otherDeviceRefs = MaxOtherDeviceRefs

\* Strong count of the Arc<wgpu::Device>; the device is destroyed when it reaches 0.
DeviceStrongCount ==
    otherDeviceRefs + Cardinality({v \in ValueIds : values[v].device})

DeviceDestroyed == DeviceStrongCount = 0

\* Variant of DropOrder: no Drop impl and the device field declared first.
DropOrder_DeviceFirst == <<"_wgpu_device", "inner">>

\* What dropping one value releases, in order: Drop::drop takes `inner`, then the
\* fields are dropped in declaration order, `inner` (now None) and `_wgpu_device`.
DropOrder == <<"inner", "inner", "_wgpu_device">>

\* session.clone(): both fields are cloned
CloneValue ==
    /\ \E src \in ValueIds, dst \in ValueIds :
          /\ values[src].st = "live"
          /\ values[dst].st = "unused"
          /\ \A u \in ValueIds : values[u].st = "unused" => dst <= u
          /\ values' = [values EXCEPT ![dst] =
                           [st |-> "live", inner |-> values[src].inner,
                            device |-> values[src].device, step |-> 0]]
    /\ UNCHANGED otherDeviceRefs
    /\ UNCHANGED nonSessionVars

Release(val, field) ==
    IF field = "inner"
    THEN [val EXCEPT !.inner = FALSE]
    ELSE [val EXCEPT !.device = FALSE]

\* One step of dropping a value: the next release of DropOrder.
DropValueStep ==
    /\ \E v \in ValueIds :
          /\ values[v].st \in {"live", "dropping"}
          /\ LET k == values[v].step + 1
                 released == Release(values[v], DropOrder[k])
             IN  values' = [values EXCEPT ![v] =
                               [released EXCEPT !.step = k,
                                                !.st = IF k = Len(DropOrder)
                                                       THEN "dropped"
                                                       ELSE "dropping"]]
    /\ UNCHANGED otherDeviceRefs
    /\ UNCHANGED nonSessionVars

\* ctx (at the end of runner) or a render resource drops its device reference.
DropOtherDeviceRef ==
    /\ otherDeviceRefs > 0
    /\ otherDeviceRefs' = otherDeviceRefs - 1
    /\ UNCHANGED values
    /\ UNCHANGED nonSessionVars

NextSession ==
    \/ CloneValue
    \/ DropValueStep
    \/ DropOtherDeviceRef

(***************************************************************************)
(* OpenXrContext::new, OpenXrPlugin::build, get_system_info and the start  *)
(* of the runner (crates/bevy_openxr/src/lib.rs).                          *)
(***************************************************************************)
\* enum OpenXrFormFactor
OpenXrFormFactors == {"HeadMountedDisplay", "Handheld"}

\* xr::FormFactor
XrFormFactors == {"HEAD_MOUNTED_DISPLAY", "HANDHELD_DISPLAY"}

\* The answers of instance.system: Ok, or one of the two form factor errors.
SystemAnswers == {"Ok", "ERROR_FORM_FACTOR_UNSUPPORTED", "ERROR_FORM_FACTOR_UNAVAILABLE"}

\* xr::EnvironmentBlendMode
BlendModeValues == {"OPAQUE", "ADDITIVE", "ALPHA_BLEND"}

\* xr::ViewConfigurationType
ViewTypes == {"PRIMARY_MONO", "PRIMARY_STEREO", "PRIMARY_QUAD_VARJO"}

\* The order in which the runner tries the session modes.
SessionModeOrder == <<"ImmersiveVR", "ImmersiveAR", "InlineVR", "InlineAR">>

\* The lists a runtime can return: blend modes in its order of preference, no repeats.
BlendModeLists ==
    UNION {{l \in [1..n -> BlendModeValues] : \A i, j \in 1..n : l[i] = l[j] => i = j} :
           n \in 0..Cardinality(BlendModeValues)}

\* Result<Vec<EnvironmentBlendMode>>: Ok(list) or an error
EnumerateResults ==
    {[ok |-> TRUE, modes |-> l] : l \in BlendModeLists} \cup {[ok |-> FALSE, modes |-> <<>>]}

\* No plugin activity: the state under the other specifications.
ContextIdle ==
    /\ ffStatus = [f \in XrFormFactors |-> "Ok"]
    /\ blendModes = [v \in ViewTypes |-> [ok |-> FALSE, modes |-> <<>>]]
    /\ varjo_quad_views = FALSE
    /\ buildPc = "build"
    /\ requested = <<>>
    /\ createdFor = "none"
    /\ form_factor = "none"
    /\ interaction_mode = "unset"
    /\ available_session_modes = <<>>
    /\ selected_session_mode = "none"
    /\ environment_blend_mode = "unset"

\* OpenXrPlugin::build starts on some runtime; a runtime without the Varjo
\* extension knows no quad view configuration.
InitContext ==
    /\ ffStatus \in [XrFormFactors -> SystemAnswers]
    /\ varjo_quad_views \in BOOLEAN
    /\ blendModes \in [ViewTypes -> EnumerateResults]
    /\ ~varjo_quad_views => ~blendModes["PRIMARY_QUAD_VARJO"].ok
    /\ buildPc = "build"
    /\ requested = <<>>
    /\ createdFor = "none"
    /\ form_factor = "none"
    /\ interaction_mode = "unset"
    /\ available_session_modes = <<>>
    /\ selected_session_mode = "none"
    /\ environment_blend_mode = "unset"

runtimeVars == <<ffStatus, blendModes, varjo_quad_views>>

\* let form_factor = match form_factor { HeadMountedDisplay => .., Handheld => .. }
XrFormFactorOf(ff) ==
    CASE ff = "HeadMountedDisplay" -> "HEAD_MOUNTED_DISPLAY"
      [] ff = "Handheld"           -> "HEAD_MOUNTED_DISPLAY"

\* OpenXrContext::new(ff): the instance is created, the system is asked for with
\* the converted form factor, the graphics context is created. `failure` is the
\* step that fails for a reason of its own, if any.
OpenXrContextNew(ff, failure) ==
    IF failure = "InstanceCreation"
    THEN [ok |-> FALSE, requested |-> <<>>, form_factor |-> "none"]
    ELSE LET xr_ff == XrFormFactorOf(ff)
         IN  IF ffStatus[xr_ff] # "Ok" \/ failure = "GraphicsCreation"
             THEN [ok |-> FALSE, requested |-> <<xr_ff>>, form_factor |-> "none"]
             ELSE [ok |-> TRUE, requested |-> <<xr_ff>>, form_factor |-> xr_ff]

Failures == {"none", "InstanceCreation", "GraphicsCreation"}

\* OpenXrContext::new(OpenXrFormFactor::HeadMountedDisplay).unwrap_or_else(..)
BuildNewHeadMounted ==
    /\ buildPc = "build"
    /\ \E failure \in Failures :
          LET r == OpenXrContextNew("HeadMountedDisplay", failure)
          IN  /\ requested' = requested \o r.requested
              /\ form_factor' = r.form_factor
              /\ createdFor' = IF r.ok THEN "HeadMountedDisplay" ELSE createdFor
              /\ buildPc' = IF r.ok THEN "runner" ELSE "fallback"
    /\ UNCHANGED <<runtimeVars, interaction_mode, available_session_modes,
                   selected_session_mode, environment_blend_mode>>
    /\ UNCHANGED nonContextVars

\* match OpenXrContext::new(OpenXrFormFactor::Handheld) { Ok(..) => .., Err(..) => panic!(..) }
BuildNewHandheld ==
    /\ buildPc = "fallback"
    /\ \E failure \in Failures :
          LET r == OpenXrContextNew("Handheld", failure)
          IN  /\ requested' = requested \o r.requested
              /\ form_factor' = r.form_factor
              /\ createdFor' = IF r.ok THEN "Handheld" ELSE createdFor
              /\ buildPc' = IF r.ok THEN "runner" ELSE "panicked"
    /\ UNCHANGED <<runtimeVars, interaction_mode, available_session_modes,
                   selected_session_mode, environment_blend_mode>>
    /\ UNCHANGED nonContextVars

\* The view configuration get_system_info uses for a session mode.
ViewTypeOf(m) ==
    IF m \in {"ImmersiveVR", "ImmersiveAR"}
    THEN IF varjo_quad_views THEN "PRIMARY_QUAD_VARJO" ELSE "PRIMARY_STEREO"
    ELSE "PRIMARY_MONO"

\* iter().find(|b| *b == wanted): Some(wanted) or None
Find(list, wanted) ==
    IF \E i \in 1..Len(list) : list[i] = wanted
    THEN [some |-> TRUE, value |-> wanted]
    ELSE [some |-> FALSE, value |-> "none"]

NoSystemInfo == [some |-> FALSE, view_type |-> "none", blend_mode |-> "none"]

\* Variant of get_system_info: an AR mode takes the first of ALPHA_BLEND and
\* ADDITIVE in the runtime's order.
get_system_info_FirstOffered(m) ==
    LET view_type == ViewTypeOf(m)
        blend_modes == blendModes[view_type]
    IN  IF ~blend_modes.ok
        THEN NoSystemInfo
        ELSE LET blend_mode ==
                     IF m \in {"ImmersiveVR", "InlineVR"}
                     THEN Find(blend_modes.modes, "OPAQUE")
                     ELSE LET l == blend_modes.modes
                              ar == {i \in 1..Len(l) : l[i] \in {"ALPHA_BLEND", "ADDITIVE"}}
                          IN  IF ar = {}
                              THEN [some |-> FALSE, value |-> "none"]
                              ELSE [some |-> TRUE,
                                    value |-> l[CHOOSE i \in ar : \A j \in ar : i <= j]]
             IN  IF blend_mode.some
                 THEN [some |-> TRUE, view_type |-> view_type,
                       blend_mode |-> blend_mode.value]
                 ELSE NoSystemInfo

\* fn get_system_info(instance, system, mode) -> Option<(view_type, blend_mode)>
get_system_info(m) ==
    LET view_type == ViewTypeOf(m)
        blend_modes == blendModes[view_type]
    IN  IF ~blend_modes.ok
        THEN NoSystemInfo
        ELSE LET alpha == Find(blend_modes.modes, "ALPHA_BLEND")
                 blend_mode ==
                     IF m \in {"ImmersiveVR", "InlineVR"}
                     THEN Find(blend_modes.modes, "OPAQUE")
                     ELSE IF alpha.some
                          THEN alpha
                          ELSE Find(blend_modes.modes, "ADDITIVE")
             IN  IF blend_mode.some
                 THEN [some |-> TRUE, view_type |-> view_type,
                       blend_mode |-> blend_mode.value]
                 ELSE NoSystemInfo

SystemInfoIsSome(m) == get_system_info(m).some

\* fn runner up to XrSystem::new: the interaction mode and the available session modes
RunnerPrologue ==
    /\ buildPc = "runner"
    /\ interaction_mode' = IF form_factor = "HEAD_MOUNTED_DISPLAY"
                           THEN "WorldSpace"
                           ELSE "ScreenSpace"
    /\ available_session_modes' = SelectSeq(SessionModeOrder, SystemInfoIsSome)
    /\ buildPc' = "startup"
    /\ UNCHANGED <<runtimeVars, requested, createdFor, form_factor,
                   selected_session_mode, environment_blend_mode>>
    /\ UNCHANGED nonContextVars

\* match blend_mode { OPAQUE => Opaque, ALPHA_BLEND => AlphaBlend, ADDITIVE => Additive }
XrEnvironmentBlendModeOf(b) ==
    CASE b = "OPAQUE"      -> "Opaque"
      [] b = "ALPHA_BLEND" -> "AlphaBlend"
      [] b = "ADDITIVE"    -> "Additive"

\* After Startup: the selected session mode, get_system_info(..).unwrap() and the
\* XrEnvironmentBlendMode resource. The mode is the one a startup system asked for.
SelectSessionMode ==
    /\ buildPc = "startup"
    /\ \E m \in {SessionModeOrder[i] : i \in 1..Len(SessionModeOrder)} :
          /\ get_system_info(m).some
          /\ selected_session_mode' = m
          /\ environment_blend_mode' = XrEnvironmentBlendModeOf(get_system_info(m).blend_mode)
    /\ buildPc' = "session"
    /\ UNCHANGED <<runtimeVars, requested, createdFor, form_factor, interaction_mode,
                   available_session_modes>>
    /\ UNCHANGED nonContextVars

NextContext ==
    \/ BuildNewHeadMounted
    \/ BuildNewHandheld
    \/ RunnerPrologue
    \/ SelectSessionMode

(***************************************************************************)
(* WebXrPlugin: setup, setup_webxr_pawn and update_manual_texture_views    *)
(* (crates/bevy_webxr/src/lib.rs).                                         *)
(***************************************************************************)
\* The values Uuid::new_v4() can return.
Uuids == 1..NumUuids

\* The systems WebXrPlugin::build adds to the Update stage; they are not ordered.
UpdateSystems == {"sync_head_tf", "sync_hands_tf", "update_manual_texture_views"}

\* The eye cameras setup_webxr_pawn spawns.
EyeCameras == {"LeftEyeMarker", "RightEyeMarker"}

\* HashMap::insert(key, value)
MapInsert(map, key, value) ==
    [k \in DOMAIN map \cup {key} |-> IF k = key THEN value ELSE map[k]]

\* The empty ManualTextureViews
EmptyMap == [k \in {} |-> 0]

\* Before WebXrPlugin::build; ManualTextureViews is empty by default.
InitFramebuffer ==
    /\ fbPc = "build"
    /\ framebuffer_uuid = 0
    /\ manual_tex_view = EmptyMap
    /\ cameraTarget = [c \in EyeCameras |-> 0]
    /\ fbFrame = 0
    /\ pending = {}
    /\ head_tf = 0
    /\ hands_tf = 0

\* WebXrPlugin::build calls setup: let id = Uuid::new_v4(); insert_resource(FramebufferUuid(id))
Setup ==
    /\ fbPc = "build"
    /\ \E id \in Uuids : framebuffer_uuid' = id
    /\ fbPc' = "raf"
    /\ UNCHANGED <<manual_tex_view, cameraTarget, fbFrame, pending, head_tf, hands_tf>>
    /\ UNCHANGED nonFramebufferVars

\* The animation frame callback inserts the frame and starts app.update(): the
\* first update runs the startup systems before the Update stage.
BeginUpdate ==
    /\ fbPc = "raf"
    /\ fbFrame < MaxFbFrames
    /\ fbFrame' = fbFrame + 1
    /\ IF fbFrame = 0
       THEN fbPc' = "startup" /\ pending' = pending
       ELSE fbPc' = "update" /\ pending' = UpdateSystems
    /\ UNCHANGED <<framebuffer_uuid, manual_tex_view, cameraTarget, head_tf, hands_tf>>
    /\ UNCHANGED nonFramebufferVars

\* fn setup_webxr_pawn: both eye cameras get RenderTarget::TextureView(id.0)
SetupWebxrPawn ==
    /\ fbPc = "startup"
    /\ LET id == framebuffer_uuid
       IN  cameraTarget' = [c \in EyeCameras |-> id]
    /\ fbPc' = "update"
    /\ pending' = UpdateSystems
    /\ UNCHANGED <<framebuffer_uuid, manual_tex_view, fbFrame, head_tf, hands_tf>>
    /\ UNCHANGED nonFramebufferVars

\* fn sync_head_tf
SyncHeadTf ==
    /\ fbPc = "update"
    /\ "sync_head_tf" \in pending
    /\ head_tf' = fbFrame
    /\ pending' = pending \ {"sync_head_tf"}
    /\ UNCHANGED <<fbPc, framebuffer_uuid, manual_tex_view, cameraTarget, fbFrame, hands_tf>>
    /\ UNCHANGED nonFramebufferVars

\* fn sync_hands_tf
SyncHandsTf ==
    /\ fbPc = "update"
    /\ "sync_hands_tf" \in pending
    /\ hands_tf' = fbFrame
    /\ pending' = pending \ {"sync_hands_tf"}
    /\ UNCHANGED <<fbPc, framebuffer_uuid, manual_tex_view, cameraTarget, fbFrame, head_tf>>
    /\ UNCHANGED nonFramebufferVars

\* Variant of update_manual_texture_views: the view is inserted under a new Uuid.
UpdateManualTextureViews_NewKey ==
    /\ fbPc = "update"
    /\ "update_manual_texture_views" \in pending
    /\ \E id \in Uuids : manual_tex_view' = MapInsert(manual_tex_view, id, fbFrame)
    /\ pending' = pending \ {"update_manual_texture_views"}
    /\ UNCHANGED <<fbPc, framebuffer_uuid, cameraTarget, fbFrame, head_tf, hands_tf>>
    /\ UNCHANGED nonFramebufferVars

\* fn update_manual_texture_views: manual_tex_view.insert(framebuffer_uuid.0, (view, resolution))
UpdateManualTextureViews ==
    /\ fbPc = "update"
    /\ "update_manual_texture_views" \in pending
    /\ manual_tex_view' = MapInsert(manual_tex_view, framebuffer_uuid, fbFrame)
    /\ pending' = pending \ {"update_manual_texture_views"}
    /\ UNCHANGED <<fbPc, framebuffer_uuid, cameraTarget, fbFrame, head_tf, hands_tf>>
    /\ UNCHANGED nonFramebufferVars

\* app.update() returns; session.request_animation_frame(..)
EndUpdate ==
    /\ fbPc = "update"
    /\ pending = {}
    /\ fbPc' = "raf"
    /\ UNCHANGED <<framebuffer_uuid, manual_tex_view, cameraTarget, fbFrame, pending,
                   head_tf, hands_tf>>
    /\ UNCHANGED nonFramebufferVars

NextFramebuffer ==
    \/ Setup
    \/ BeginUpdate
    \/ SetupWebxrPawn
    \/ SyncHeadTf
    \/ SyncHandsTf
    \/ UpdateManualTextureViews
    \/ EndUpdate

(***************************************************************************)
(* XRProjection::get_projection_matrix and far                             *)
(* (crates/bevy_openxr/src/camera/mod.rs). The f32 values are exact        *)
(* rationals [n, d]; an angle is represented by twice its tangent.         *)
(***************************************************************************)
Abs(x) == IF x < 0 THEN -x ELSE x

RECURSIVE Gcd(_, _)
Gcd(a, b) == IF b = 0 THEN a ELSE Gcd(b, a % b)

\* the rational n/d in lowest terms, d > 0
Rat(n, d) ==
    LET g == Gcd(Abs(n), Abs(d))
        s == IF d < 0 THEN -1 ELSE 1
    IN  [n |-> (s * n) \div g, d |-> (s * d) \div g]

RInt(i) == [n |-> i, d |-> 1]
RAdd(x, y) == Rat(x.n * y.d + y.n * x.d, x.d * y.d)
RNeg(x) == [n |-> -x.n, d |-> x.d]
RSub(x, y) == RAdd(x, RNeg(y))
RMul(x, y) == Rat(x.n * y.n, x.d * y.d)
RDiv(x, y) == Rat(x.n * y.d, x.d * y.n)
RLeq(x, y) == x.n * y.d <= y.n * x.d

\* f32::tan of an angle
Tan(angle) == Rat(angle, 2)

\* Mat4::from_cols_array_2d(&[[1, 0, 0, 0], [0, 1, 0, 0], [0, 0, -1, 0], [0, 0, 1, 1]])
z_reversal ==
    <<RInt(1), RInt(0), RInt(0), RInt(0),
      RInt(0), RInt(1), RInt(0), RInt(0),
      RInt(0), RInt(0), RInt(-1), RInt(0),
      RInt(0), RInt(0), RInt(1), RInt(1)>>

\* element (row r, column c) of a column-major Mat4, rows and columns from 0
At(m, r, c) == m[c * 4 + r + 1]

\* Mat4 * Mat4
MatMul(a, b) ==
    [i \in 1..16 |->
        LET r == (i - 1) % 4
            c == (i - 1) \div 4
        IN  RAdd(RAdd(RMul(At(a, r, 0), At(b, 0, c)), RMul(At(a, r, 1), At(b, 1, c))),
                 RAdd(RMul(At(a, r, 2), At(b, 2, c)), RMul(At(a, r, 3), At(b, 3, c))))]

\* Variant of get_projection_matrix: let far_z = self.far;
get_projection_matrix_UsesFar(self) ==
    LET fov == self.fov
        near_z == RInt(self.near)
        far_z == RInt(self.far)
        tan_angle_left == Tan(fov.angle_left)
        tan_angle_right == Tan(fov.angle_right)
        tan_angle_down == Tan(fov.angle_down)
        tan_angle_up == Tan(fov.angle_up)
        tan_angle_width == RSub(tan_angle_right, tan_angle_left)
        tan_angle_height == RSub(tan_angle_up, tan_angle_down)
        offset_z == RInt(0)
        infinite == RLeq(far_z, near_z)
        c10 == IF infinite
               THEN RInt(-1)
               ELSE RDiv(RNeg(RAdd(far_z, offset_z)), RSub(far_z, near_z))
        c14 == IF infinite
               THEN RNeg(RAdd(near_z, offset_z))
               ELSE RDiv(RNeg(RMul(far_z, RAdd(near_z, offset_z))), RSub(far_z, near_z))
        cols == <<RDiv(RInt(2), tan_angle_width), RInt(0), RInt(0), RInt(0),
                  RInt(0), RDiv(RInt(2), tan_angle_height), RInt(0), RInt(0),
                  RDiv(RAdd(tan_angle_right, tan_angle_left), tan_angle_width),
                  RDiv(RAdd(tan_angle_up, tan_angle_down), tan_angle_height),
                  c10, RInt(-1),
                  RInt(0), RInt(0), c14, RInt(0)>>
    IN  IF infinite
        THEN [branch |-> "infinite", matrix |-> MatMul(z_reversal, cols)]
        ELSE [branch |-> "finite", matrix |-> cols]

\* fn get_projection_matrix(&self) -> Mat4, with the branch it takes
get_projection_matrix(self) ==
    LET fov == self.fov
        near_z == RInt(self.near)
        far_z == RInt(-1)
        tan_angle_left == Tan(fov.angle_left)
        tan_angle_right == Tan(fov.angle_right)
        tan_angle_down == Tan(fov.angle_down)
        tan_angle_up == Tan(fov.angle_up)
        tan_angle_width == RSub(tan_angle_right, tan_angle_left)
        tan_angle_height == RSub(tan_angle_up, tan_angle_down)
        offset_z == RInt(0)
        infinite == RLeq(far_z, near_z)
        c10 == IF infinite
               THEN RInt(-1)
               ELSE RDiv(RNeg(RAdd(far_z, offset_z)), RSub(far_z, near_z))
        c14 == IF infinite
               THEN RNeg(RAdd(near_z, offset_z))
               ELSE RDiv(RNeg(RMul(far_z, RAdd(near_z, offset_z))), RSub(far_z, near_z))
        cols == <<RDiv(RInt(2), tan_angle_width), RInt(0), RInt(0), RInt(0),
                  RInt(0), RDiv(RInt(2), tan_angle_height), RInt(0), RInt(0),
                  RDiv(RAdd(tan_angle_right, tan_angle_left), tan_angle_width),
                  RDiv(RAdd(tan_angle_up, tan_angle_down), tan_angle_height),
                  c10, RInt(-1),
                  RInt(0), RInt(0), c14, RInt(0)>>
    IN  IF infinite
        THEN [branch |-> "infinite", matrix |-> MatMul(z_reversal, cols)]
        ELSE [branch |-> "finite", matrix |-> cols]

\* fn far(&self) -> f32
far(self) == self.far

\* The near and far values and the field-of-view angles of the model: the left
\* and down angles are negative, the right and up angles positive.
NearValues == (0 - MaxNear)..MaxNear
FarValues == (0 - 1)..MaxFar
LowAngles == (0 - MaxAngle)..(0 - 1)
HighAngles == 1..MaxAngle

Fovs == [angle_left : LowAngles, angle_right : HighAngles,
         angle_up : HighAngles, angle_down : LowAngles]

XRProjections == [near : NearValues, far : FarValues, fov : Fovs]

ProjectionIdle ==
    /\ projection = [near |-> 0, far |-> 0,
                     fov |-> [angle_left |-> -1, angle_right |-> 1,
                              angle_up |-> 1, angle_down |-> -1]]
    /\ matrixCalled = FALSE
    /\ matrix = <<>>
    /\ branch = "none"
    /\ farCalled = FALSE
    /\ farResult = 0

\* XRProjection::new(near, far, fov)
InitProjection ==
    /\ projection \in XRProjections
    /\ matrixCalled = FALSE
    /\ matrix = <<>>
    /\ branch = "none"
    /\ farCalled = FALSE
    /\ farResult = 0

\* a call of get_projection_matrix
GetProjectionMatrix ==
    /\ ~matrixCalled
    /\ matrixCalled' = TRUE
    /\ matrix' = get_projection_matrix(projection).matrix
    /\ branch' = get_projection_matrix(projection).branch
    /\ UNCHANGED <<projection, farCalled, farResult>>
    /\ UNCHANGED nonProjectionVars

\* a call of far
Far ==
    /\ ~farCalled
    /\ farCalled' = TRUE
    /\ farResult' = far(projection)
    /\ UNCHANGED <<projection, matrixCalled, matrix, branch>>
    /\ UNCHANGED nonProjectionVars

NextProjection ==
    \/ GetProjectionMatrix
    \/ Far

(***************************************************************************)
(* MainPassDriverNode::run                                                 *)
(* (crates/bevy_core_pipeline/src/main_pass_driver.rs).                    *)
(***************************************************************************)
\* The cameras the node can run a sub-graph for.
CameraKinds == {"camera_3d", "camera_2d", "left_eye", "right_eye"}

\* Option<Entity>
Options == {"Some", "None"}

DriverIdle ==
    /\ active_camera_3d = "None"
    /\ active_camera_2d = "None"
    /\ left_eye = "absent"
    /\ right_eye = "absent"
    /\ failing = {}
    /\ driverPc = "camera_3d"
    /\ vr_eyes = <<>>
    /\ subGraphLog = <<>>
    /\ runResult = "pending"

\* run is entered with some world; some of the sub-graph runs will fail
InitDriver ==
    /\ active_camera_3d \in Options
    /\ active_camera_2d \in Options
    /\ left_eye \in Options \cup {"absent"}
    /\ right_eye \in Options \cup {"absent"}
    /\ failing \in SUBSET CameraKinds
    /\ driverPc = "camera_3d"
    /\ vr_eyes = <<>>
    /\ subGraphLog = <<>>
    /\ runResult = "pending"

worldVars == <<active_camera_3d, active_camera_2d, left_eye, right_eye, failing>>

\* Variant of the 3D step: the error of run_sub_graph is dropped.
RunCamera3d_IgnoresError ==
    /\ driverPc = "camera_3d"
    /\ IF active_camera_3d = "Some"
       THEN subGraphLog' = Append(subGraphLog, "camera_3d")
       ELSE subGraphLog' = subGraphLog
    /\ driverPc' = "camera_2d"
    /\ UNCHANGED <<worldVars, vr_eyes, runResult>>
    /\ UNCHANGED nonDriverVars

\* if let Some(camera_3d) = ..ActiveCamera<Camera3d>>().get() { graph.run_sub_graph(..)?; }
RunCamera3d ==
    /\ driverPc = "camera_3d"
    /\ IF active_camera_3d = "Some"
       THEN /\ subGraphLog' = Append(subGraphLog, "camera_3d")
            /\ IF "camera_3d" \in failing
               THEN runResult' = "Err" /\ driverPc' = "done"
               ELSE runResult' = runResult /\ driverPc' = "camera_2d"
       ELSE /\ subGraphLog' = subGraphLog
            /\ runResult' = runResult
            /\ driverPc' = "camera_2d"
    /\ UNCHANGED <<worldVars, vr_eyes>>
    /\ UNCHANGED nonDriverVars

\* if let Some(camera_2d) = ..ActiveCamera<Camera2d>>().get() { graph.run_sub_graph(..)?; }
RunCamera2d ==
    /\ driverPc = "camera_2d"
    /\ IF active_camera_2d = "Some"
       THEN /\ subGraphLog' = Append(subGraphLog, "camera_2d")
            /\ IF "camera_2d" \in failing
               THEN runResult' = "Err" /\ driverPc' = "done"
               ELSE runResult' = runResult /\ driverPc' = "collect"
       ELSE /\ subGraphLog' = subGraphLog
            /\ runResult' = runResult
            /\ driverPc' = "collect"
    /\ UNCHANGED <<worldVars, vr_eyes>>
    /\ UNCHANGED nonDriverVars

\* let mut vr_eyes = vec![]; the left eye is pushed first, then the right eye
CollectEyes ==
    /\ driverPc = "collect"
    /\ vr_eyes' =
          (IF left_eye # "absent"
           THEN <<[camera |-> "left_eye", entity |-> left_eye]>> ELSE <<>>)
          \o (IF right_eye # "absent"
              THEN <<[camera |-> "right_eye", entity |-> right_eye]>> ELSE <<>>)
    /\ driverPc' = "eyes"
    /\ UNCHANGED <<worldVars, subGraphLog, runResult>>
    /\ UNCHANGED nonDriverVars

\* one iteration of: for cam in vr_eyes { if let Some(camera_3d) = cam { ..run_sub_graph(..)?; } }
RunEye ==
    /\ driverPc = "eyes"
    /\ vr_eyes # <<>>
    /\ LET cam == Head(vr_eyes)
       IN  IF cam.entity = "Some"
           THEN /\ subGraphLog' = Append(subGraphLog, cam.camera)
                /\ IF cam.camera \in failing
                   THEN runResult' = "Err" /\ driverPc' = "done"
                   ELSE runResult' = runResult /\ driverPc' = driverPc
           ELSE /\ subGraphLog' = subGraphLog
                /\ runResult' = runResult
                /\ driverPc' = driverPc
    /\ vr_eyes' = Tail(vr_eyes)
    /\ UNCHANGED worldVars
    /\ UNCHANGED nonDriverVars

\* Ok(())
ReturnOk ==
    /\ driverPc = "eyes"
    /\ vr_eyes = <<>>
    /\ runResult' = "Ok"
    /\ driverPc' = "done"
    /\ UNCHANGED <<worldVars, vr_eyes, subGraphLog>>
    /\ UNCHANGED nonDriverVars

NextDriver ==
    \/ RunCamera3d
    \/ RunCamera2d
    \/ CollectEyes
    \/ RunEye
    \/ ReturnOk

(***************************************************************************)
(* XrCameraPlugin::build and update_xrcamera_view, in the engine's         *)
(* schedule (crates/bevy_openxr/src/camera/xrcameraplugin.rs, mod.rs).     *)
(***************************************************************************)
\* CoreStage, in the order app.update() runs the stages
CoreStages == <<"First", "PreUpdate", "Update", "PostUpdate", "Last">>

\* The systems of the model: the two XrCameraPlugin adds, camera_system of
\* CameraProjectionPlugin::<XRProjection>, and the engine's transform
\* propagation and perspective frusta update.
Systems == {"update_xrcamera_view", "update_frusta_XRProjection", "camera_system",
            "transform_propagate", "update_perspective_frusta"}

\* add_system_to_stage(stage, system)
StageOf(system) ==
    IF system = "update_xrcamera_view" THEN "PreUpdate" ELSE "PostUpdate"

\* Variant of the plugin's ordering: update_frusta::<XRProjection> without
\* .after(TransformSystem::TransformPropagate).
XrCameraPluginOrder_NoAfter ==
    {<<"update_frusta_XRProjection", "update_perspective_frusta">>}

\* update_frusta::<XRProjection>.after(TransformPropagate).before(UpdatePerspectiveFrusta):
\* pairs <<a, b>> where a runs before b
XrCameraPluginOrder ==
    {<<"transform_propagate", "update_frusta_XRProjection">>,
     <<"update_frusta_XRProjection", "update_perspective_frusta">>}

\* The engine's own ordering: the perspective frusta follow the transform propagation.
EngineOrder == {<<"transform_propagate", "update_perspective_frusta">>}

MustRunBefore == XrCameraPluginOrder \cup EngineOrder

\* The scheduler runs a system of the current stage once all the systems
\* ordered before it have run.
CanRun(system) ==
    /\ stage = StageOf(system)
    /\ system \notin ran
    /\ \A o \in MustRunBefore : o[2] = system => o[1] \in ran

\* The views the runtime locates for a frame: a pose and fov value, and the frame.
NoViews == [frame |-> 0, view |-> 0]

ScheduleIdle ==
    /\ schedFrame = 0
    /\ stage = "idle"
    /\ ran = {}
    /\ xr_views = NoViews
    /\ eye_transform = NoViews
    /\ eye_fov = NoViews
    /\ global_transform = NoViews
    /\ frustum = [pose |-> NoViews, fov |-> NoViews]
    /\ perspective_frusta = 0

\* app.update() begins: the views of this frame have been located
BeginAppUpdate ==
    /\ stage = "idle"
    /\ schedFrame < MaxSchedFrames
    /\ schedFrame' = schedFrame + 1
    /\ \E v \in 1..NumPoses : xr_views' = [frame |-> schedFrame + 1, view |-> v]
    /\ stage' = CoreStages[1]
    /\ ran' = {}
    /\ UNCHANGED <<eye_transform, eye_fov, global_transform, frustum, perspective_frusta>>
    /\ UNCHANGED nonScheduleVars

\* fn update_xrcamera_view: projection.fov = view.fov; transform = view.pose
UpdateXrcameraView ==
    /\ CanRun("update_xrcamera_view")
    /\ eye_fov' = xr_views
    /\ eye_transform' = xr_views
    /\ ran' = ran \cup {"update_xrcamera_view"}
    /\ UNCHANGED <<schedFrame, stage, xr_views, global_transform, frustum,
                   perspective_frusta>>
    /\ UNCHANGED nonScheduleVars

\* transform propagation: GlobalTransform is computed from Transform
TransformPropagate ==
    /\ CanRun("transform_propagate")
    /\ global_transform' = eye_transform
    /\ ran' = ran \cup {"transform_propagate"}
    /\ UNCHANGED <<schedFrame, stage, xr_views, eye_transform, eye_fov, frustum,
                   perspective_frusta>>
    /\ UNCHANGED nonScheduleVars

\* camera_system::<XRProjection>: calls XRProjection::update, which does nothing
CameraSystem ==
    /\ CanRun("camera_system")
    /\ ran' = ran \cup {"camera_system"}
    /\ UNCHANGED <<schedFrame, stage, xr_views, eye_transform, eye_fov, global_transform,
                   frustum, perspective_frusta>>
    /\ UNCHANGED nonScheduleVars

\* update_frusta::<XRProjection>: the frustum from the projection and the GlobalTransform
UpdateFrustaXRProjection ==
    /\ CanRun("update_frusta_XRProjection")
    /\ frustum' = [pose |-> global_transform, fov |-> eye_fov]
    /\ ran' = ran \cup {"update_frusta_XRProjection"}
    /\ UNCHANGED <<schedFrame, stage, xr_views, eye_transform, eye_fov, global_transform,
                   perspective_frusta>>
    /\ UNCHANGED nonScheduleVars

\* update_frusta::<PerspectiveProjection>, labelled UpdatePerspectiveFrusta
UpdatePerspectiveFrusta ==
    /\ CanRun("update_perspective_frusta")
    /\ perspective_frusta' = schedFrame
    /\ ran' = ran \cup {"update_perspective_frusta"}
    /\ UNCHANGED <<schedFrame, stage, xr_views, eye_transform, eye_fov, global_transform,
                   frustum>>
    /\ UNCHANGED nonScheduleVars

\* The stage is over when all its systems have run; after Last, app.update() returns.
NextStage ==
    /\ stage # "idle"
    /\ \A s \in Systems : StageOf(s) = stage => s \in ran
    /\ LET i == CHOOSE j \in 1..Len(CoreStages) : CoreStages[j] = stage
       IN  stage' = IF i < Len(CoreStages) THEN CoreStages[i + 1] ELSE "idle"
    /\ UNCHANGED <<schedFrame, ran, xr_views, eye_transform, eye_fov, global_transform,
                   frustum, perspective_frusta>>
    /\ UNCHANGED nonScheduleVars

NextSchedule ==
    \/ BeginAppUpdate
    \/ UpdateXrcameraView
    \/ TransformPropagate
    \/ CameraSystem
    \/ UpdateFrustaXRProjection
    \/ UpdatePerspectiveFrusta
    \/ NextStage

(***************************************************************************)
(* The specifications.                                                     *)
(***************************************************************************)
AudioSpecInit ==
    /\ InitRunner
    /\ InitAudio
    /\ WebIdle
    /\ SessionIdle
    /\ ContextIdle
    /\ InitFramebuffer
    /\ ProjectionIdle
    /\ DriverIdle
    /\ ScheduleIdle

SpecAudio == AudioSpecInit /\ [][NextAudio]_vars

WebSpecInit ==
    /\ InitRunner
    /\ AudioIdle
    /\ InitWeb
    /\ SessionIdle
    /\ ContextIdle
    /\ InitFramebuffer
    /\ ProjectionIdle
    /\ DriverIdle
    /\ ScheduleIdle

SpecWeb == WebSpecInit /\ [][NextWeb]_vars

SessionSpecInit ==
    /\ InitRunner
    /\ AudioIdle
    /\ WebIdle
    /\ InitSession
    /\ ContextIdle
    /\ InitFramebuffer
    /\ ProjectionIdle
    /\ DriverIdle
    /\ ScheduleIdle

SpecSession == SessionSpecInit /\ [][NextSession]_vars

ContextSpecInit ==
    /\ InitRunner
    /\ AudioIdle
    /\ WebIdle
    /\ SessionIdle
    /\ InitContext
    /\ InitFramebuffer
    /\ ProjectionIdle
    /\ DriverIdle
    /\ ScheduleIdle

SpecContext == ContextSpecInit /\ [][NextContext]_vars

FramebufferSpecInit ==
    /\ InitRunner
    /\ AudioIdle
    /\ WebIdle
    /\ SessionIdle
    /\ ContextIdle
    /\ InitFramebuffer
    /\ ProjectionIdle
    /\ DriverIdle
    /\ ScheduleIdle

SpecFramebuffer == FramebufferSpecInit /\ [][NextFramebuffer]_vars

ProjectionSpecInit ==
    /\ InitRunner
    /\ AudioIdle
    /\ WebIdle
    /\ SessionIdle
    /\ ContextIdle
    /\ InitFramebuffer
    /\ InitProjection
    /\ DriverIdle
    /\ ScheduleIdle

SpecProjection == ProjectionSpecInit /\ [][NextProjection]_vars

DriverSpecInit ==
    /\ InitRunner
    /\ AudioIdle
    /\ WebIdle
    /\ SessionIdle
    /\ ContextIdle
    /\ InitFramebuffer
    /\ ProjectionIdle
    /\ InitDriver
    /\ ScheduleIdle

SpecDriver == DriverSpecInit /\ [][NextDriver]_vars

ScheduleSpecInit ==
    /\ InitRunner
    /\ AudioIdle
    /\ WebIdle
    /\ SessionIdle
    /\ ContextIdle
    /\ InitFramebuffer
    /\ ProjectionIdle
    /\ DriverIdle
    /\ ScheduleIdle

SpecSchedule == ScheduleSpecInit /\ [][NextSchedule]_vars

Init ==
    /\ InitRunner
    /\ AudioIdle
    /\ WebIdle
    /\ SessionIdle
    /\ ContextIdle
    /\ InitFramebuffer
    /\ ProjectionIdle
    /\ DriverIdle
    /\ ScheduleIdle

Next ==
    \/ RunStartupStage
    \/ CheckAppExit
    \/ CreateSession
    \/ AttachActionSets
    \/ PollEventsLost
    \/ PollInstanceLossPending
    \/ PollIdle
    \/ PollReady
    \/ PollVisibility
    \/ PollStopping
    \/ PollExiting
    \/ PollOther
    \/ PollNone
    \/ FrameWait
    \/ FrameBegin
    \/ FrameEndEmpty
    \/ AcquireRight
    \/ AcquireLeft
    \/ InsertTextureView
    \/ AppUpdate
    \/ WaitRight
    \/ WaitLeft
    \/ ReleaseLeft
    \/ ReleaseRight
    \/ FrameEnd
    \/ PostFrame

Spec == Init /\ [][Next]_vars

(***************************************************************************)
(* Claims about the OpenXR runner, checked under Spec.                     *)
(***************************************************************************)
ImageProtocol == <<"acquire", "wait", "release">>

IsPrefix(s, t) == Len(s) <= Len(t) /\ s = SubSeq(t, 1, Len(s))

\* C1: `running` becomes true only by handling SessionStateChanged(READY), which
\* calls session.begin, and false only by handling SessionStateChanged(STOPPING),
\* which calls session.end; frame_waiter.wait, frame_stream.begin and
\* frame_stream.end are called only while `running` is true.
C1_RunningGatesFrames ==
    [][ /\ (~running /\ running') => (pc = "poll" /\ event' = "READY" /\ sessionBegun')
        /\ (running /\ ~running') => (pc = "poll" /\ event' = "STOPPING" /\ ~sessionBegun')
        /\ (nWait' # nWait \/ nBegin' # nBegin \/ nEnd' # nEnd) => (running /\ running')
      ]_vars

\* C1 witness: frames were submitted while running, then STOPPING cleared `running`.
C1_Witness == ~running /\ event = "STOPPING" /\ nEnd >= 1 /\ pc = "poll"

\* C2: wait, begin and end strictly alternate in that order; an iteration that
\* reached wait has begun and ended its frame exactly once before the next
\* iteration starts, with no layer when should_render is false and one projection
\* layer otherwise.
C2_FrameCallsAlternate ==
    /\ nEnd <= nBegin /\ nBegin <= nWait /\ nWait <= nEnd + 1
    /\ (pc \in {"poll", "wait"}) => (nWait = nBegin /\ nBegin = nEnd)
    /\ (pc = "check_render") => (nBegin = nWait /\ nEnd + 1 = nWait)
    /\ (nWait > 0 /\ nEnd = nWait) => lastLayers = (IF should_render THEN 1 ELSE 0)

\* C2 witness: a rendered frame followed by a frame that was not rendered.
C2_Witness == pc = "poll" /\ nEnd = 2 /\ lastLayers = 0 /\ frame = 1

\* C3: in a rendered frame each eye swapchain sees acquire_image, wait_image and
\* release_image exactly once and in that order, both releases precede
\* frame_stream.end, and no image is left acquired when an iteration ends.
C3_SwapchainImageProtocol ==
    /\ \A e \in Eyes : IsPrefix(eyeLog[e], ImageProtocol)
    /\ (pc \in {"end", "post"}) => \A e \in Eyes : eyeLog[e] = ImageProtocol
    /\ (lastLayers = 1 /\ nEnd = nWait) => \A e \in Eyes : eyeLog[e] = ImageProtocol
    /\ (pc = "poll") => \A e \in Eyes : image[e] = "released"

\* C3 witness: the second rendered frame is about to be submitted.
C3_Witness == pc = "end" /\ nWait = 2 /\ frame = 1

\* C4: once InstanceLossPending, or SessionStateChanged with EXITING or
\* LOSS_PENDING, is polled the runner has returned, and after it has returned no
\* event is handled and no frame is waited, begun or ended.
C4_TerminatesOnExitEvents ==
    /\ [](event \in {"InstanceLossPending", "EXITING", "LOSS_PENDING"} => pc = "returned")
    /\ [][pc = "returned" => UNCHANGED <<pc, event, running, nWait, nBegin, nEnd>>]_vars

\* C4 witness: the loop was left on EXITING after a frame had been submitted.
C4_Witness == pc = "returned" /\ event = "EXITING" /\ nEnd >= 1

\* C5: if an AppExit event is present after the Startup stage, the runner returns
\* without creating a session, attaching an action set or entering the loop.
C5_AppExitAtStartupReturns ==
    startupAppExit =>
        /\ pc \in {"check_exit", "returned"}
        /\ pc \notin LoopPcs
        /\ ~sessionCreated
        /\ ~actionSetAttached
        /\ event = "none_yet"
        /\ nWait = 0

\* C5 witness: the runner returned because of the AppExit sent during Startup.
C5_Witness == startupAppExit /\ pc = "returned" /\ ~appExitUnread

(***************************************************************************)
(* Claims about the audio output, checked under SpecAudio.                 *)
(***************************************************************************)
NotLoaded(config) == config.source_handle \notin loaded

\* C6: one call of try_play_queued examines exactly the configs that were queued
\* at entry, each once and in order, and returns; afterwards the queue holds
\* exactly those whose source was not loaded, in their original relative order.
C6_TryPlayQueuedOnePass ==
    lastAudioOp = "try_play_queued" =>
        /\ examined = queueAtEntry
        /\ queue = SelectSeq(queueAtEntry, NotLoaded)
        /\ \A k \in 1..Len(queue) : queue[k].source_handle \notin loaded

\* C6 witness: a call that removed a loaded config and kept two unloaded ones.
C6_Witness ==
    /\ lastAudioOp = "try_play_queued"
    /\ Len(queueAtEntry) = 3
    /\ Len(queue) = 2
    /\ queueAtEntry[1].source_handle \in loaded
    /\ queue[1] # queue[2]

(***************************************************************************)
(* Claims about the WebXR backend, checked under SpecWeb.                  *)
(***************************************************************************)
CallbackOrder ==
    <<"insert_frame", "insert_tracking_source", "update", "request_animation_frame">>

\* C7: every animation-frame callback stores its XrFrame, inserts a tracking
\* source built from that frame, runs app.update() and requests the next frame,
\* once each and in this order; during app.update() both resources refer to the
\* callback's frame, and at most one callback is pending at any time.
C7_FrameCallbackOrder ==
    /\ rafPending <= 1
    /\ frameNo > 0 =>
          /\ cbLog = CallbackOrder
          /\ xrFrame = frameNo
          /\ tracking.frame = frameNo
          /\ tracking.space_type = space_info
          /\ updateSaw = [xrFrame |-> frameNo, trackingFrame |-> frameNo]
          /\ rafPending = 1

\* C7 witness: the second callback has run.
C7_Witness == frameNo = 2 /\ updateSaw.xrFrame = 2 /\ rafPending = 1

\* C9: set_reference_space_type returns false for every requested type and
\* changes nothing: reference_space_type() stays the conversion of the space type
\* the TrackingSource was created with.
C9_SetReferenceSpaceTypeNoOp ==
    /\ setResult = FALSE
    /\ tracking.frame > 0 =>
          /\ tracking.space_type = space_info
          /\ reference_space_type(tracking) = XrFromWebSpace(XrIntoWebSpace(ctxSpaceType))
          /\ reference_space_type(tracking) \in BevySpaceTypes

\* C9 witness: vr_cubes' interaction system asked for Stage on a Local source.
C9_Witness ==
    /\ setResult = FALSE
    /\ setArg = "Stage"
    /\ reference_space_type(tracking) = "Local"

\* C10 (as claimed): whenever the mode get_context was asked for is not supported
\* by the browser, and the browser answered the support query, get_context returns
\* Err("XrSessionMode not supported.") without requesting a session, creating a
\* canvas or requesting a reference space.
C10_UnsupportedModeIsRefused ==
    (/\ ctxPc # "start"
     /\ supportQuery # "rejected"
     /\ XrIntoWebMode(ctxMode) \notin browserSupports) =>
        /\ ctxResult = "Err_not_supported"
        /\ sessionRequested = "none"
        /\ ~canvasCreated
        /\ spaceRequested = "none"

(***************************************************************************)
(* Claims about OpenXrSession, checked under SpecSession.                  *)
(***************************************************************************)
\* C8: every OpenXrSession value, clones included, releases the wrapped session
\* before its device reference, so the wgpu device is never destroyed while an
\* OpenXrSession still holds the session.
C8_SessionDroppedBeforeDevice ==
    /\ \A v \in ValueIds : values[v].inner => values[v].device
    /\ DeviceDestroyed => \A v \in ValueIds : ~values[v].inner

\* C8 witness: a clone that is being dropped has released the session and holds
\* the last reference to the device.
C8_Witness ==
    /\ otherDeviceRefs = 0
    /\ DeviceStrongCount = 1
    /\ values[2].st = "dropping" /\ ~values[2].inner /\ values[2].device
    /\ values[1].st = "dropped"

(***************************************************************************)
(* Claims about the context and the session modes, checked under           *)
(* SpecContext.                                                            *)
(***************************************************************************)
\* C11 (as claimed): OpenXrContext::new(Handheld) asks the runtime for another
\* form factor than OpenXrContext::new(HeadMountedDisplay) did, and the runner
\* inserts WorldSpace exactly for a context created for HeadMountedDisplay and
\* ScreenSpace exactly for one created for Handheld.
C11_FormFactorIsTheRequestedOne ==
    /\ Len(requested) = 2 => requested[1] # requested[2]
    /\ interaction_mode # "unset" =>
          /\ (interaction_mode = "WorldSpace") <=> (createdFor = "HeadMountedDisplay")
          /\ (interaction_mode = "ScreenSpace") <=> (createdFor = "Handheld")

Offered(m) ==
    IF blendModes[ViewTypeOf(m)].ok
    THEN {blendModes[ViewTypeOf(m)].modes[i] : i \in 1..Len(blendModes[ViewTypeOf(m)].modes)}
    ELSE {}

Available(m) ==
    IF m \in {"ImmersiveVR", "InlineVR"}
    THEN "OPAQUE" \in Offered(m)
    ELSE "ALPHA_BLEND" \in Offered(m) \/ "ADDITIVE" \in Offered(m)

\* C13: XrSystem is created with exactly the session modes that are available,
\* in the order ImmersiveVR, ImmersiveAR, InlineVR, InlineAR: a VR mode iff
\* OPAQUE is offered for its view configuration, an AR mode iff ALPHA_BLEND or
\* ADDITIVE is; an AR mode selects ALPHA_BLEND whenever it is offered, whatever
\* its position, and ADDITIVE only otherwise.
C13_AvailableSessionModes ==
    /\ buildPc \in {"startup", "session"} =>
          available_session_modes = SelectSeq(SessionModeOrder, Available)
    /\ buildPc = "session" =>
          LET m == selected_session_mode
          IN  /\ Available(m)
              /\ m \in {"ImmersiveVR", "InlineVR"} => environment_blend_mode = "Opaque"
              /\ (m \in {"ImmersiveAR", "InlineAR"} /\ "ALPHA_BLEND" \in Offered(m)) =>
                    environment_blend_mode = "AlphaBlend"
              /\ (m \in {"ImmersiveAR", "InlineAR"} /\ "ALPHA_BLEND" \notin Offered(m)) =>
                    environment_blend_mode = "Additive"

\* C13 witness: an AR mode was selected on a runtime that lists ADDITIVE before
\* ALPHA_BLEND, and only three of the four modes are available.
C13_Witness ==
    /\ buildPc = "session"
    /\ selected_session_mode = "ImmersiveAR"
    /\ blendModes["PRIMARY_STEREO"].modes = <<"ADDITIVE", "ALPHA_BLEND">>
    /\ available_session_modes = <<"ImmersiveAR", "InlineVR", "InlineAR">>
    /\ environment_blend_mode = "AlphaBlend"

(***************************************************************************)
(* The order of app.update() and wait_image, checked under Spec.           *)
(***************************************************************************)
\* C14 (as claimed): in every rendered frame app.update() renders into the
\* swapchain image only after wait_image has returned for it: the image the
\* renderer's texture view belongs to is acquired, waited and not yet released
\* whenever the application renders.
C14_RenderAfterWaitImage ==
    /\ renderedInto # "nothing" => renderedInto = "waited"
    /\ pc = "update" => image["right"] = "waited"

(***************************************************************************)
(* The framebuffer key of the WebXR backend, checked under                 *)
(* SpecFramebuffer.                                                        *)
(***************************************************************************)
\* C12: the FramebufferUuid is generated once in setup and never changes
\* afterwards; every run of update_manual_texture_views inserts the current
\* frame's framebuffer view under exactly that key, replacing the previous
\* entry, so ManualTextureViews never holds more than one entry; both eye
\* cameras spawned by setup_webxr_pawn target TextureView of that same id.
C12_FramebufferUuidIsTheKey ==
    /\ [](/\ fbPc # "build" => framebuffer_uuid \in Uuids
          /\ DOMAIN manual_tex_view \subseteq {framebuffer_uuid}
          /\ (fbPc \in {"raf", "update"} /\ fbFrame > 0) =>
                \A c \in EyeCameras : cameraTarget[c] = framebuffer_uuid)
    /\ [][/\ framebuffer_uuid # 0 => framebuffer_uuid' = framebuffer_uuid
          /\ ("update_manual_texture_views" \in pending
              /\ "update_manual_texture_views" \notin pending') =>
                /\ DOMAIN manual_tex_view' = {framebuffer_uuid}
                /\ manual_tex_view'[framebuffer_uuid] = fbFrame]_vars

\* C12 witness: the view of the second frame has replaced that of the first
\* under the key the cameras target.
C12_Witness ==
    /\ fbFrame = 2
    /\ "update_manual_texture_views" \notin pending
    /\ fbPc = "update"
    /\ DOMAIN manual_tex_view = {framebuffer_uuid}
    /\ manual_tex_view[framebuffer_uuid] = 2
    /\ cameraTarget["LeftEyeMarker"] = framebuffer_uuid

(***************************************************************************)
(* The XR projection matrix, checked under SpecProjection.                 *)
(***************************************************************************)
\* C15: get_projection_matrix always uses the infinite projection: for every
\* near >= 0 and every far it takes the far-plane-at-infinity branch with the z
\* reversal and never the finite branch, so two projections that differ only in
\* far give the same matrix; far() still returns the far field.
C15_InfiniteProjection ==
    /\ (matrixCalled /\ projection.near >= 0) =>
          /\ branch = "infinite"
          /\ At(matrix, 2, 2) = RInt(0)
          /\ At(matrix, 2, 3) = RInt(projection.near)
          /\ At(matrix, 3, 2) = RInt(-1)
          /\ \A f \in FarValues :
                get_projection_matrix([projection EXCEPT !.far = f]).matrix = matrix
    /\ farCalled => farResult = projection.far

\* C15 witness: a projection whose far plane lies beyond its near plane was
\* evaluated and its far value read.
C15_Witness ==
    /\ matrixCalled
    /\ farCalled
    /\ projection.near = 1
    /\ projection.far = 2
    /\ branch = "infinite"
    /\ farResult = 2

(***************************************************************************)
(* The main pass driver, checked under SpecDriver.                         *)
(***************************************************************************)
DriverOrder == <<"camera_3d", "camera_2d", "left_eye", "right_eye">>

HasActiveCamera(k) ==
    CASE k = "camera_3d" -> active_camera_3d = "Some"
      [] k = "camera_2d" -> active_camera_2d = "Some"
      [] k = "left_eye"  -> left_eye = "Some"
      [] k = "right_eye" -> right_eye = "Some"

ActiveInOrder == SelectSeq(DriverOrder, HasActiveCamera)

FailingPositions == {i \in 1..Len(ActiveInOrder) : ActiveInOrder[i] \in failing}

\* C16: run runs the sub-graphs in the order active 3D camera, active 2D
\* camera, left-eye camera, right-eye camera, each only if an active camera of
\* that kind exists (the eye resources may be absent), and returns the first
\* sub-graph error at once without running a later sub-graph.
C16_DriverOrderAndFirstError ==
    /\ IsPrefix(subGraphLog, ActiveInOrder)
    /\ \A i \in 1..Len(subGraphLog) :
          subGraphLog[i] \in failing => (i = Len(subGraphLog) /\ runResult = "Err")
    /\ runResult = "Err" =>
          /\ driverPc = "done"
          /\ subGraphLog # <<>>
          /\ subGraphLog[Len(subGraphLog)] \in failing
    /\ runResult = "Ok" =>
          /\ driverPc = "done"
          /\ subGraphLog = ActiveInOrder
          /\ FailingPositions = {}
    /\ driverPc = "done" => runResult # "pending"

\* C16 witness: all four cameras are active, the left-eye sub-graph failed after
\* the 3D and 2D ones ran, and the right-eye one, which would fail too, did not run.
C16_Witness ==
    /\ driverPc = "done"
    /\ runResult = "Err"
    /\ subGraphLog = <<"camera_3d", "camera_2d", "left_eye">>
    /\ right_eye = "Some"
    /\ failing = {"left_eye", "right_eye"}

=============================================================================
